---- MODULE Spec2Model ----
(***************************************************************************)
(* string_builder: StringBuilder(String), a chained builder over one      *)
(* growable UTF-8 buffer (src/src/lib.rs).                                 *)
(*                                                                         *)
(* A String is modelled by its bytes and its capacity, a &str argument by  *)
(* its characters (code points) and a &[u8] argument by its bytes.  A      *)
(* chain is a constructor, a sequence of append calls and to_string; the   *)
(* state records the chain issued so far (ctor, calls) beside the builder  *)
(* it produced (sb), the extracted String (result) and the Utf8Error that  *)
(* ended the chain (err).  whole is the byte sequence a test slices its    *)
(* pieces from.                                                            *)
(***************************************************************************)
EXTENDS Integers, Sequences, FiniteSets, TLC

VARIABLES pc, ctor, calls, sb, result, err, whole

vars == <<pc, ctor, calls, sb, result, err, whole>>

(***************************************************************************)
(* Bounds                                                                  *)
(***************************************************************************)
\* longest byte slice / longest text (in encoded bytes) passed to one call
MaxLen == 2
\* most append calls in one chain
MaxCalls == 2
\* largest capacity hint given to with_capacity
MaxCap == 1
\* longest byte sequence, other than the tests' sample, that is cut into pieces
MaxWhole == 3
\* most pieces one byte sequence is cut into
MaxPieces == 3

(***************************************************************************)
(* Bytes and texts                                                         *)
(***************************************************************************)
\* 'P', the lead byte of a 2-byte character, a continuation byte, the lead
\* byte of a 3-byte character
Bytes == {80, 195, 169, 226}

\* 'P' (50), U+00E9 (c3 a9), U+2A69 (e2 a9 a9)
Chars == {80, 233, 10857}

SeqsUpTo(S, n) == UNION {[1..k -> S] : k \in 0..n}

RECURSIVE Flatten(_)
Flatten(ss) == IF ss = <<>> THEN <<>> ELSE Head(ss) \o Flatten(Tail(ss))

\* char::encode_utf8: the bytes a &str holds for one character
encode_utf8(c) ==
    IF c < 128 THEN <<c>>
    ELSE IF c < 2048 THEN <<192 + (c \div 64), 128 + (c % 64)>>
    ELSE IF c < 65536
         THEN <<224 + (c \div 4096), 128 + ((c \div 64) % 64), 128 + (c % 64)>>
    ELSE <<240 + (c \div 262144), 128 + ((c \div 4096) % 64),
           128 + ((c \div 64) % 64), 128 + (c % 64)>>

\* str::as_bytes: the UTF-8 bytes of a text
as_bytes(t) == Flatten([i \in 1..Len(t) |-> encode_utf8(t[i])])

\* core::str::validations::utf8_char_width
utf8_char_width(b) ==
    IF b < 128 THEN 1
    ELSE IF b >= 194 /\ b <= 223 THEN 2
    ELSE IF b >= 224 /\ b <= 239 THEN 3
    ELSE IF b >= 240 /\ b <= 244 THEN 4
    ELSE 0

IsCont(b) == b >= 128 /\ b <= 191

\* str::chars of the bytes of a String: one code point per lead byte; a
\* byte that starts no character, or a character cut short, reads as -1
RECURSIVE chars(_)
chars(bs) ==
    IF bs = <<>> THEN <<>>
    ELSE LET w == utf8_char_width(bs[1])
             rest(n) == chars(SubSeq(bs, n + 1, Len(bs)))
         IN  IF w = 0 \/ w > Len(bs) THEN <<-1>> \o rest(1)
             ELSE IF w = 1 THEN <<bs[1]>> \o rest(1)
             ELSE IF w = 2
                  THEN <<(bs[1] % 32) * 64 + (bs[2] % 64)>> \o rest(2)
             ELSE IF w = 3
                  THEN <<(bs[1] % 16) * 4096 + (bs[2] % 64) * 64 + (bs[3] % 64)>>
                       \o rest(3)
             ELSE <<(bs[1] % 8) * 262144 + (bs[2] % 64) * 4096
                    + (bs[3] % 64) * 64 + (bs[4] % 64)>> \o rest(4)

\* a Unicode scalar value
IsScalar(c) == c >= 0 /\ c <= 1114111 /\ ~(c >= 55296 /\ c <= 57343)

\* the code point that w bytes of bs from index i on encode
DecodeAt(bs, i, w) ==
    IF w = 1 THEN bs[i]
    ELSE IF w = 2 THEN (bs[i] % 32) * 64 + (bs[i + 1] % 64)
    ELSE IF w = 3 THEN (bs[i] % 16) * 4096 + (bs[i + 1] % 64) * 64 + (bs[i + 2] % 64)
    ELSE (bs[i] % 8) * 262144 + (bs[i + 1] % 64) * 4096 + (bs[i + 2] % 64) * 64
         + (bs[i + 3] % 64)

\* bs from index i on is the encodings of Unicode scalar values, one after
\* the other
RECURSIVE EncodingsFrom(_, _)
EncodingsFrom(bs, i) ==
    IF i > Len(bs) THEN TRUE
    ELSE LET w == utf8_char_width(bs[i])
         IN  /\ w >= 1
             /\ i + w - 1 <= Len(bs)
             /\ IsScalar(DecodeAt(bs, i, w))
             /\ encode_utf8(DecodeAt(bs, i, w)) = SubSeq(bs, i, i + w - 1)
             /\ EncodingsFrom(bs, i + w)

\* bs is the UTF-8 encoding of some text
WellFormed(bs) == EncodingsFrom(bs, 1)

(***************************************************************************)
(* std::str::from_utf8 and Utf8Error                                       *)
(***************************************************************************)
Utf8Ok(bs) == [ok |-> TRUE, str |-> bs, valid_up_to |-> Len(bs), error_len |-> 0]

\* Utf8Error { valid_up_to, error_len }; error_len 0 stands for None
Utf8Err(bs, i, n) == [ok |-> FALSE, str |-> <<>>, valid_up_to |-> i - 1, error_len |-> n]

\* the second byte a 3- or 4-byte lead admits
SecondOk(first, second) ==
    \/ first = 224 /\ second >= 160 /\ second <= 191
    \/ first >= 225 /\ first <= 236 /\ IsCont(second)
    \/ first = 237 /\ second >= 128 /\ second <= 159
    \/ first >= 238 /\ first <= 239 /\ IsCont(second)
    \/ first = 240 /\ second >= 144 /\ second <= 191
    \/ first >= 241 /\ first <= 243 /\ IsCont(second)
    \/ first = 244 /\ second >= 128 /\ second <= 143

\* core::str::validations::run_utf8_validation from index i on
RECURSIVE run_utf8_validation(_, _)
run_utf8_validation(bs, i) ==
    IF i > Len(bs) THEN Utf8Ok(bs)
    ELSE LET first == bs[i]
             w == utf8_char_width(first)
         IN  IF first < 128 THEN run_utf8_validation(bs, i + 1)
             ELSE IF w = 2
                  THEN IF i + 1 > Len(bs) THEN Utf8Err(bs, i, 0)
                       ELSE IF ~IsCont(bs[i + 1]) THEN Utf8Err(bs, i, 1)
                       ELSE run_utf8_validation(bs, i + 2)
             ELSE IF w = 3
                  THEN IF i + 1 > Len(bs) THEN Utf8Err(bs, i, 0)
                       ELSE IF ~SecondOk(first, bs[i + 1]) THEN Utf8Err(bs, i, 1)
                       ELSE IF i + 2 > Len(bs) THEN Utf8Err(bs, i, 0)
                       ELSE IF ~IsCont(bs[i + 2]) THEN Utf8Err(bs, i, 2)
                       ELSE run_utf8_validation(bs, i + 3)
             ELSE IF w = 4
                  THEN IF i + 1 > Len(bs) THEN Utf8Err(bs, i, 0)
                       ELSE IF ~SecondOk(first, bs[i + 1]) THEN Utf8Err(bs, i, 1)
                       ELSE IF i + 2 > Len(bs) THEN Utf8Err(bs, i, 0)
                       ELSE IF ~IsCont(bs[i + 2]) THEN Utf8Err(bs, i, 2)
                       ELSE IF i + 3 > Len(bs) THEN Utf8Err(bs, i, 0)
                       ELSE IF ~IsCont(bs[i + 3]) THEN Utf8Err(bs, i, 3)
                       ELSE run_utf8_validation(bs, i + 4)
             ELSE Utf8Err(bs, i, 1)

\* from_utf8 as an ASCII check: every byte of 128 or more is refused
from_utf8_ascii(from) ==
    IF \E i \in 1..Len(from) : from[i] >= 128
    THEN Utf8Err(from, CHOOSE i \in 1..Len(from) :
                         from[i] >= 128 /\ \A k \in 1..(i - 1) : from[k] < 128, 1)
    ELSE Utf8Ok(from)

\* from_utf8 as a streaming decoder: a character cut short at the end is
\* held back and the bytes before it are returned
from_utf8_holds_tail(from) ==
    LET r == run_utf8_validation(from, 1)
    IN  IF ~r.ok /\ r.error_len = 0 THEN Utf8Ok(SubSeq(from, 1, r.valid_up_to))
        ELSE r

\* std::str::from_utf8(from): the same bytes as a &str, or a Utf8Error
from_utf8(from) == run_utf8_validation(from, 1)

\* <Utf8Error as Display>::fmt: the message, then the numbers it prints
Description(e) ==
    IF e.error_len # 0
    THEN <<"invalid utf-8 sequence", " of ", e.error_len, " bytes from index ", e.valid_up_to>>
    ELSE <<"incomplete utf-8 byte sequence", " from index ", e.valid_up_to>>

NoError == [some |-> FALSE, valid_up_to |-> 0, error_len |-> 0]

SomeError(r) == [some |-> TRUE, valid_up_to |-> r.valid_up_to, error_len |-> r.error_len]

(***************************************************************************)
(* String                                                                  *)
(***************************************************************************)
Max(a, b) == IF a >= b THEN a ELSE b

\* String::new()
String_new == [buf |-> <<>>, cap |-> 0]

\* String::with_capacity(size)
String_with_capacity(size) == [buf |-> <<>>, cap |-> size]

\* str::to_string: an owned copy
str_to_string(t) == [buf |-> as_bytes(t), cap |-> Len(as_bytes(t))]

\* String::push_str: the bytes are copied onto the end; the storage grows
\* (amortised doubling, at least 8 bytes) when they do not fit
push_str(s, bytes) ==
    LET need == Len(s.buf) + Len(bytes)
    IN  [buf |-> s.buf \o bytes,
         cap |-> IF need <= s.cap THEN s.cap ELSE Max(8, Max(2 * s.cap, need))]

(***************************************************************************)
(* StringBuilder                                                           *)
(***************************************************************************)
\* the value left behind when a builder has been moved out of or dropped
Moved == [live |-> FALSE, buf |-> <<>>, cap |-> 0]

Live(s) == [live |-> TRUE, buf |-> s.buf, cap |-> s.cap]

\* StringBuilder::new
new == Live(String_new)

\* with_capacity that makes a String of size spaces
with_capacity_filled(size) == Live([buf |-> [i \in 1..size |-> 32], cap |-> size])

\* StringBuilder::with_capacity
with_capacity(size) == Live(String_with_capacity(size))

\* StringBuilder::from
from(t) == Live(str_to_string(t))

Returned(s) == [tag |-> "ret", sb |-> s, e |-> NoError]

\* append that assigns the fragment instead of pushing it
append_overwrites(self, t) == Returned(Live(str_to_string(t)))

\* StringBuilder::append
append(self, t) == Returned(Live(push_str(self, as_bytes(t))))

\* append_bytes that pushes the valid prefix of a slice whose end is cut short
append_bytes_valid_prefix(self, bytes) ==
    LET r == from_utf8(bytes)
    IN  IF r.ok THEN Returned(Live(push_str(self, r.str)))
        ELSE IF r.error_len = 0
             THEN Returned(Live(push_str(self, SubSeq(bytes, 1, r.valid_up_to))))
        ELSE [tag |-> "panic", sb |-> Moved, e |-> SomeError(r)]

\* append_bytes that assigns the decoded slice instead of pushing it
append_bytes_replace(self, bytes) ==
    LET r == from_utf8(bytes)
    IN  IF r.ok THEN Returned(Live([buf |-> r.str, cap |-> Len(r.str)]))
        ELSE [tag |-> "panic", sb |-> Moved, e |-> SomeError(r)]

\* append_bytes over from_utf8_unchecked: no validation
append_bytes_unchecked(self, bytes) == Returned(Live(push_str(self, bytes)))

\* StringBuilder::append_bytes: unwrap() panics on the Utf8Error
append_bytes(self, bytes) ==
    LET r == from_utf8(bytes)
    IN  IF r.ok THEN Returned(Live(push_str(self, r.str)))
        ELSE [tag |-> "panic", sb |-> Moved, e |-> SomeError(r)]

\* try_append_bytes that assigns the decoded slice instead of pushing it
try_append_bytes_replace(self, bytes) ==
    LET r == from_utf8(bytes)
    IN  IF r.ok THEN Returned(Live([buf |-> r.str, cap |-> Len(r.str)]))
        ELSE [tag |-> "err", sb |-> Moved, e |-> SomeError(r)]

\* try_append_bytes that maps every Utf8Error to one generic error
try_append_bytes_generic_error(self, bytes) ==
    LET r == from_utf8(bytes)
    IN  IF r.ok THEN Returned(Live(push_str(self, r.str)))
        ELSE [tag |-> "err", sb |-> Moved,
              e |-> [some |-> TRUE, valid_up_to |-> 0, error_len |-> 1]]

\* try_append_bytes that accepts ASCII only
try_append_bytes_ascii(self, bytes) ==
    IF \A i \in 1..Len(bytes) : bytes[i] < 128
    THEN Returned(Live(push_str(self, bytes)))
    ELSE [tag |-> "err", sb |-> Moved,
          e |-> [some |-> TRUE, valid_up_to |-> 0, error_len |-> 1]]

\* StringBuilder::try_append_bytes: ? returns the Utf8Error
try_append_bytes(self, bytes) ==
    LET r == from_utf8(bytes)
    IN  IF r.ok THEN Returned(Live(push_str(self, r.str)))
        ELSE [tag |-> "err", sb |-> Moved, e |-> SomeError(r)]

\* StringBuilder::to_string
to_string(self) == self.buf

(***************************************************************************)
(* Chains                                                                  *)
(***************************************************************************)
\* the byte slices a call may be given
ByteArgs == SeqsUpTo(Bytes, MaxLen)

\* the texts a call may be given
Texts == {t \in SeqsUpTo(Chars, MaxLen) : Len(as_bytes(t)) <= MaxLen}

NoCtor == [kind |-> "none", size |-> 0, text |-> <<>>]

NoResult == [some |-> FALSE, str |-> <<>>]

\* the builder a constructor call makes
Build(c) ==
    IF c.kind = "with_capacity" THEN with_capacity(c.size)
    ELSE IF c.kind = "from" THEN from(c.text)
    ELSE new

\* one append call on a builder
Apply(self, call) ==
    IF call.op = "append" THEN append(self, call.arg)
    ELSE IF call.op = "append_bytes" THEN append_bytes(self, call.arg)
    ELSE try_append_bytes(self, call.arg)

\* tests::byte_data: the sample sentence, as text
SampleText ==
    <<8222, 80, 101, 108, 233, 32, 104, 97, 116, 32, 97, 108, 108, 101, 115, 32,
      118, 101, 114, 228, 110, 100, 101, 114, 116, 46>>

\* tests::byte_data: sample.as_bytes()
Sample == as_bytes(SampleText)

\* the well-formed byte sequences that are fed to a chain piece by piece
Wholes == {w \in {Sample} \cup SeqsUpTo(Bytes, MaxWhole) : WellFormed(w)}

\* the bytes of the calls made so far, in call order
Fed == Flatten([i \in 1..Len(calls) |-> calls[i].arg])

\* &whole[i..j]
Slice(bs, i, j) == SubSeq(bs, i + 1, j)

Init ==
    /\ pc = "start"
    /\ ctor = NoCtor
    /\ calls = <<>>
    /\ sb = Moved
    /\ result = NoResult
    /\ err = NoError
    /\ whole = <<>>

\* StringBuilder::new() opens the chain
DoNew ==
    /\ pc = "start"
    /\ pc' = "chain"
    /\ ctor' = [kind |-> "new", size |-> 0, text |-> <<>>]
    /\ sb' = new
    /\ UNCHANGED <<calls, result, err, whole>>

\* StringBuilder::with_capacity(size) opens the chain
DoWithCapacity ==
    /\ pc = "start"
    /\ \E size \in 0..MaxCap :
          /\ ctor' = [kind |-> "with_capacity", size |-> size, text |-> <<>>]
          /\ sb' = with_capacity(size)
    /\ pc' = "chain"
    /\ UNCHANGED <<calls, result, err, whole>>

\* StringBuilder::from(text) opens the chain
DoFrom ==
    /\ pc = "start"
    /\ \E t \in Texts :
          /\ ctor' = [kind |-> "from", size |-> 0, text |-> t]
          /\ sb' = from(t)
    /\ pc' = "chain"
    /\ UNCHANGED <<calls, result, err, whole>>

\* .append(text): the builder comes back
DoAppend ==
    /\ pc = "chain"
    /\ Len(calls) < MaxCalls
    /\ \E t \in Texts :
          LET call == [op |-> "append", arg |-> t]
              out == Apply(sb, call)
          IN  /\ sb' = out.sb
              /\ calls' = Append(calls, call)
    /\ UNCHANGED <<pc, ctor, result, err, whole>>

\* .append_bytes(bytes): the builder comes back, or the panic ends the chain
DoAppendBytes ==
    /\ pc = "chain"
    /\ Len(calls) < MaxCalls
    /\ \E bs \in ByteArgs :
          LET call == [op |-> "append_bytes", arg |-> bs]
              out == Apply(sb, call)
          IN  /\ pc' = IF out.tag = "ret" THEN "chain" ELSE out.tag
              /\ sb' = out.sb
              /\ err' = out.e
              /\ calls' = Append(calls, call)
    /\ UNCHANGED <<ctor, result, whole>>

\* .try_append_bytes(bytes)?: the builder comes back, or the error ends the chain
DoTryAppendBytes ==
    /\ pc = "chain"
    /\ Len(calls) < MaxCalls
    /\ \E bs \in ByteArgs :
          LET call == [op |-> "try_append_bytes", arg |-> bs]
              out == Apply(sb, call)
          IN  /\ pc' = IF out.tag = "ret" THEN "chain" ELSE out.tag
              /\ sb' = out.sb
              /\ err' = out.e
              /\ calls' = Append(calls, call)
    /\ UNCHANGED <<ctor, result, whole>>

\* .to_string() ends the chain: the buffer moves out of the builder
DoToString ==
    /\ pc = "chain"
    /\ pc' = "done"
    /\ result' = [some |-> TRUE, str |-> to_string(sb)]
    /\ sb' = Moved
    /\ UNCHANGED <<ctor, calls, err, whole>>

Next ==
    \/ DoNew
    \/ DoWithCapacity
    \/ DoFrom
    \/ DoAppend
    \/ DoAppendBytes
    \/ DoTryAppendBytes
    \/ DoToString

Spec == Init /\ [][Next]_vars

(***************************************************************************)
(* Chains that feed one byte sequence in consecutive pieces, as the tests  *)
(* do with the sample: new(), then one byte-append call per piece.         *)
(***************************************************************************)
InitSplit ==
    /\ pc = "start"
    /\ ctor = NoCtor
    /\ calls = <<>>
    /\ sb = Moved
    /\ result = NoResult
    /\ err = NoError
    /\ whole \in Wholes

\* .append_bytes(&whole[i..j]) on the next piece
SplitAppendBytes ==
    /\ pc = "chain"
    /\ Len(calls) < MaxPieces
    /\ \E j \in Len(Fed)..Len(whole) :
          LET call == [op |-> "append_bytes", arg |-> Slice(whole, Len(Fed), j)]
              out == Apply(sb, call)
          IN  /\ pc' = IF out.tag = "ret" THEN "chain" ELSE out.tag
              /\ sb' = out.sb
              /\ err' = out.e
              /\ calls' = Append(calls, call)
    /\ UNCHANGED <<ctor, result, whole>>

\* .try_append_bytes(&whole[i..j])? on the next piece
SplitTryAppendBytes ==
    /\ pc = "chain"
    /\ Len(calls) < MaxPieces
    /\ \E j \in Len(Fed)..Len(whole) :
          LET call == [op |-> "try_append_bytes", arg |-> Slice(whole, Len(Fed), j)]
              out == Apply(sb, call)
          IN  /\ pc' = IF out.tag = "ret" THEN "chain" ELSE out.tag
              /\ sb' = out.sb
              /\ err' = out.e
              /\ calls' = Append(calls, call)
    /\ UNCHANGED <<ctor, result, whole>>

NextSplit ==
    \/ DoNew
    \/ SplitAppendBytes
    \/ SplitTryAppendBytes
    \/ DoToString

SpecSplit == InitSplit /\ [][NextSplit]_vars

(***************************************************************************)
(* What a caller observes of a chain                                       *)
(***************************************************************************)
Failed == pc \in {"panic", "err"}

Succeeded == pc \in {"chain", "done"}

\* the text a caller can read: the live builder's buffer, or the extracted String
Content == IF pc = "done" THEN result.str ELSE sb.buf

LastCall == calls[Len(calls)]

IsBytesOp(op) == op \in {"append_bytes", "try_append_bytes"}

\* how a failing call of this kind ends the chain
FailTag(op) == IF op = "append_bytes" THEN "panic" ELSE "err"

\* the inputs of the calls as texts, byte slices decoded
InputText == Flatten([i \in 1..Len(calls) |->
                 IF calls[i].op = "append" THEN calls[i].arg ELSE chars(calls[i].arg)])

\* the inputs of the calls as bytes, texts encoded
InputBytes == Flatten([i \in 1..Len(calls) |->
                 IF calls[i].op = "append" THEN as_bytes(calls[i].arg) ELSE calls[i].arg])

\* the calls cs made in order on builder s: the last outcome, and the calls
\* left unmade after a failure
RECURSIVE Replay(_, _)
Replay(s, cs) ==
    IF cs = <<>> THEN [out |-> Returned(s), left |-> 0]
    ELSE LET out == Apply(s, Head(cs))
         IN  IF out.tag = "ret" THEN Replay(out.sb, Tail(cs))
             ELSE [out |-> out, left |-> Len(cs) - 1]

\* p is the beginning, cut short, of the encoding of one character: some
\* continuation bytes complete it
TruncatedChar(p) ==
    /\ p # <<>>
    /\ utf8_char_width(p[1]) > Len(p)
    /\ \E s \in [1..(utf8_char_width(p[1]) - Len(p)) -> {128, 144, 160}] :
          WellFormed(p \o s)

\* bs is well-formed up to a last character that is cut short
TruncatedTail(bs) ==
    \E k \in 0..(Len(bs) - 1) :
        /\ Len(bs) - k <= 3
        /\ TruncatedChar(SubSeq(bs, k + 1, Len(bs)))
        /\ WellFormed(SubSeq(bs, 1, k))

\* str::is_char_boundary on the text bs holds: offset j is the start or the
\* end, or the byte at j is no continuation byte
is_char_boundary(bs, j) == j = 0 \/ j = Len(bs) \/ (j < Len(bs) /\ ~IsCont(bs[j + 1]))

\* the offset in whole at which piece i ends
CutAfter(i) == Len(Flatten([k \in 1..i |-> calls[k].arg]))

(***************************************************************************)
(* C1: a chain of append calls yields the initial text followed by the     *)
(* fragments in call order; append never fails, keeps the previous         *)
(* content as a prefix and grows the buffer by the fragment's length.      *)
(***************************************************************************)
AllAppend == \A i \in 1..Len(calls) : calls[i].op = "append"

C1_Concatenation ==
    (pc # "start" /\ AllAppend) =>
        /\ Succeeded
        /\ Content = as_bytes(ctor.text \o InputText)
        /\ chars(Content) = ctor.text \o InputText

C1_AppendStep ==
    (calls' # calls /\ calls'[Len(calls')].op = "append") =>
        LET f == as_bytes(calls'[Len(calls')].arg)
        IN  /\ pc' = "chain"
            /\ err' = NoError
            /\ Len(sb'.buf) = Len(sb.buf) + Len(f)
            /\ SubSeq(sb'.buf, 1, Len(sb.buf)) = sb.buf
            /\ SubSeq(sb'.buf, Len(sb.buf) + 1, Len(sb'.buf)) = f
            /\ Len(chars(sb'.buf)) = Len(chars(sb.buf)) + Len(calls'[Len(calls')].arg)
            /\ (f = <<>> => sb'.buf = sb.buf)

C1_AppendConcatenates == [](C1_Concatenation) /\ [][C1_AppendStep]_vars

C1_Witness ==
    /\ pc = "done"
    /\ ctor.kind = "from"
    /\ ctor.text = <<233>>
    /\ Len(calls) = 2
    /\ AllAppend
    /\ calls[1].arg = <<>>
    /\ calls[2].arg = <<80>>
    /\ result.str = <<195, 169, 80>>

(***************************************************************************)
(* C2: round trip.  new() followed by one byte-append call on the UTF-8    *)
(* encoding of a text t succeeds, and the builder holds t.                 *)
(***************************************************************************)
C2_RoundTrip ==
    (ctor.kind = "new" /\ Len(calls) = 1 /\ IsBytesOp(calls[1].op)) =>
        \A t \in Texts :
            calls[1].arg = as_bytes(t) =>
                /\ Succeeded
                /\ err = NoError
                /\ chars(Content) = t
                /\ Content = as_bytes(t)

C2_Witness ==
    /\ pc = "done"
    /\ ctor.kind = "new"
    /\ calls = <<[op |-> "try_append_bytes", arg |-> as_bytes(<<233>>)]>>
    /\ chars(result.str) = <<233>>

(***************************************************************************)
(* C3: when a multi-byte character of a well-formed byte sequence is split *)
(* across two calls, the call given the piece that ends inside the         *)
(* character fails (append_bytes panics, try_append_bytes returns the      *)
(* error), first call or not, and it is the last call of the chain.        *)
(***************************************************************************)
C3_IncompletePieceFails ==
    \A i \in 1..Len(calls) :
        (is_char_boundary(whole, CutAfter(i - 1)) /\ ~is_char_boundary(whole, CutAfter(i))) =>
            /\ i = Len(calls)
            /\ pc = FailTag(calls[i].op)
            /\ err.some
            /\ sb = Moved
            /\ result = NoResult

C3_Witness ==
    /\ whole = Sample
    /\ Len(calls) = 1
    /\ calls[1] = [op |-> "append_bytes", arg |-> Slice(Sample, 0, 7)]
    /\ pc = "panic"

(***************************************************************************)
(* C4, as stated: feeding bytes [0,7) and then [7,9) of the sample, the    *)
(* first call succeeds and the second call is the one that fails.          *)
(***************************************************************************)
C4_SecondCallFails ==
    (whole = Sample /\ Len(calls) >= 1 /\ calls[1].arg = Slice(Sample, 0, 7)) =>
        /\ Len(calls) = 1 => pc \in {"chain", "done"}
        /\ (Len(calls) = 2 /\ calls[2].arg = Slice(Sample, 7, 9)) => pc = FailTag(calls[2].op)

(***************************************************************************)
(* C4, amended: feeding bytes [0,7) of the sample as the first piece, the  *)
(* first call is the one that fails: try_append_bytes returns the error    *)
(* (an incomplete sequence, valid up to byte 6), append_bytes panics, and  *)
(* no call on bytes [7,9) is made.                                         *)
(***************************************************************************)
C4_FirstCallFails ==
    (whole = Sample /\ Len(calls) >= 1 /\ calls[1].arg = Slice(Sample, 0, 7)) =>
        /\ Len(calls) = 1
        /\ pc = FailTag(calls[1].op)
        /\ err = [some |-> TRUE, valid_up_to |-> 6, error_len |-> 0]
        /\ Description(err)[1] = "incomplete utf-8 byte sequence"
        /\ sb = Moved
        /\ result = NoResult

C4_Witness ==
    /\ whole = Sample
    /\ Slice(Sample, 0, 7) = <<226, 128, 158, 80, 101, 108, 195>>
    /\ Slice(Sample, 7, 9) = <<169, 32>>
    /\ calls = <<[op |-> "try_append_bytes", arg |-> Slice(Sample, 0, 7)]>>
    /\ pc = "err"

(***************************************************************************)
(* C5: a well-formed byte sequence fed in consecutive pieces cut at        *)
(* character boundaries: every call succeeds, and the builder holds what   *)
(* one call on the whole sequence gives.                                   *)
(***************************************************************************)
C5_BoundaryPieces ==
    (pc # "start"
        /\ \A i \in 1..Len(calls) : is_char_boundary(whole, CutAfter(i))) =>
        /\ Succeeded
        /\ Content = Slice(whole, 0, Len(Fed))
        /\ Len(Fed) = Len(whole) =>
              /\ append_bytes(new, whole).tag = "ret"
              /\ append_bytes(new, whole).sb.buf = Content
              /\ try_append_bytes(new, whole).tag = "ret"
              /\ try_append_bytes(new, whole).sb.buf = Content

C5_Witness ==
    /\ whole = Sample
    /\ Len(calls) = 3
    /\ calls[1] = [op |-> "append_bytes", arg |-> Slice(Sample, 0, 9)]
    /\ calls[2] = [op |-> "try_append_bytes", arg |-> Slice(Sample, 9, 18)]
    /\ calls[3] = [op |-> "append_bytes", arg |-> Slice(Sample, 18, 30)]
    /\ pc = "done"
    /\ result.str = Sample

(***************************************************************************)
(* C6: mixed mode.  A chain of text appends and byte appends, every byte   *)
(* slice well-formed, succeeds and yields what one append of the           *)
(* concatenation of all the inputs (byte slices decoded) yields.           *)
(***************************************************************************)
C6_MixedMode ==
    (pc # "start" /\ \A i \in 1..Len(calls) :
                        IsBytesOp(calls[i].op) => WellFormed(calls[i].arg)) =>
        /\ Succeeded
        /\ Content = to_string(append(Build(ctor), InputText).sb)

C6_Witness ==
    /\ pc = "done"
    /\ Len(calls) = 2
    /\ calls[1] = [op |-> "append", arg |-> <<233>>]
    /\ calls[2] = [op |-> "append_bytes", arg |-> <<80, 80>>]
    /\ result.str = <<195, 169, 80, 80>>

(***************************************************************************)
(* C7: every buffer a caller can observe is well-formed UTF-8 and holds    *)
(* exactly the inputs of the calls, all of them well-formed; a failed call *)
(* leaves no builder and no text behind.                                   *)
(***************************************************************************)
C7_WellFormedBuffer ==
    /\ Succeeded =>
          /\ WellFormed(Content)
          /\ Content = as_bytes(ctor.text) \o InputBytes
          /\ \A i \in 1..Len(calls) : IsBytesOp(calls[i].op) => WellFormed(calls[i].arg)
    /\ Failed =>
          /\ sb = Moved
          /\ result = NoResult
          /\ ~WellFormed(LastCall.arg)

C7_Witness ==
    /\ pc = "err"
    /\ Len(calls) = 2
    /\ calls[1].arg = <<80>>
    /\ calls[2] = [op |-> "try_append_bytes", arg |-> <<80, 195>>]
    /\ sb = Moved

(***************************************************************************)
(* C8: new() and with_capacity(n) hold the empty text, and a chain on      *)
(* with_capacity(n) ends as the same chain on new() does: the same text,   *)
(* or the same failure at the same call.                                   *)
(***************************************************************************)
C8_CapacityUnobservable ==
    /\ (ctor.kind \in {"new", "with_capacity"} /\ calls = <<>> /\ pc # "start") =>
          Content = <<>>
    /\ ctor.kind = "with_capacity" =>
          LET r == Replay(new, calls)
          IN  /\ Succeeded => (r.out.tag = "ret" /\ r.out.sb.buf = Content)
              /\ Failed => (r.out.tag = pc /\ r.left = 0 /\ r.out.e = err)

C8_Witness ==
    /\ ctor.kind = "with_capacity"
    /\ ctor.size = 1
    /\ pc = "chain"
    /\ calls = <<[op |-> "append", arg |-> <<80>>]>>
    /\ sb.cap # Replay(new, calls).out.sb.cap

(***************************************************************************)
(* C9: try_append_bytes on a slice that is well-formed up to a last        *)
(* character cut short returns the error of the incomplete kind; on a      *)
(* slice that starts with a continuation byte it returns the error of the  *)
(* invalid kind, whose description differs.                                *)
(***************************************************************************)
C9_IncompleteVersusInvalid ==
    (Len(calls) >= 1 /\ LastCall.op = "try_append_bytes") =>
        /\ TruncatedTail(LastCall.arg) =>
              /\ pc = "err"
              /\ err.error_len = 0
              /\ Description(err)[1] = "incomplete utf-8 byte sequence"
        /\ (LastCall.arg # <<>> /\ IsCont(LastCall.arg[1])) =>
              /\ pc = "err"
              /\ err.error_len # 0
              /\ Description(err)[1] = "invalid utf-8 sequence"

C9_Witness ==
    /\ pc = "err"
    /\ LastCall = [op |-> "try_append_bytes", arg |-> <<80, 226>>]
    /\ Description(err) = <<"incomplete utf-8 byte sequence", " from index ", 1>>

(***************************************************************************)
(* C10: append_bytes and try_append_bytes decode alike.  A call fails      *)
(* exactly when its slice is not well-formed, whatever the buffer holds;   *)
(* the other of the two, given the same slice on the same builder, fails   *)
(* too or returns the same buffer: the previous content, then the slice.   *)
(***************************************************************************)
OtherOp(op) == IF op = "append_bytes" THEN "try_append_bytes" ELSE "append_bytes"

C10_SameDecodingRule ==
    (Len(calls) >= 1 /\ IsBytesOp(LastCall.op)) =>
        LET prev == Replay(Build(ctor), SubSeq(calls, 1, Len(calls) - 1)).out.sb
            other == Apply(prev, [op |-> OtherOp(LastCall.op), arg |-> LastCall.arg])
            alone == Apply(new, LastCall)
        IN  /\ Failed <=> ~WellFormed(LastCall.arg)
            /\ Failed => (pc = FailTag(LastCall.op) /\ other.tag = FailTag(OtherOp(LastCall.op))
                            /\ other.e = err)
            /\ Failed <=> alone.tag # "ret"
            /\ pc = "chain" =>
                  /\ other.tag = "ret"
                  /\ other.sb.buf = sb.buf
                  /\ sb.buf = prev.buf \o as_bytes(chars(LastCall.arg))

C10_Witness ==
    /\ pc = "panic"
    /\ Len(calls) = 2
    /\ calls[1].arg # <<>>
    /\ calls[2] = [op |-> "append_bytes", arg |-> <<195, 80>>]
    /\ err = [some |-> TRUE, valid_up_to |-> 0, error_len |-> 1]

====
